---- MODULE Spec2Model ----
(***************************************************************************)
(* Asset synchronisation and local cache engine of the DAM client:        *)
(*   - the IndexedDB store (tables assets and files),          services/db *)
(*   - the blob-URL handle cache (blobUrlCache),               services/db *)
(*   - the remote catalog client,                      services/serverSync *)
(*   - the orchestrator (AssetProvider),              context/AssetContext *)
(*   - the Express catalog server,                         server/index.js *)
(*                                                                         *)
(* Async functions are cut at their awaits: one action per stretch of      *)
(* code that runs without yielding.  An absent optional value (null,       *)
(* undefined, '') is 0; blobs and blob URLs are positive numbers.          *)
(***************************************************************************)
EXTENDS Integers, Sequences, FiniteSets, TLC

VARIABLES
    assets,        \* db.assets : the rows [id, rec] in primary-key order
    files,         \* db.files  : the rows [id, rec] in primary-key order
    blobUrlCache,  \* Map<string,string> in insertion order: Seq of [key, url]
    urlTable,      \* every URL.createObjectURL so far: url n is urlTable[n]
    get,           \* the getAssetWithBlobs call in flight
    del,           \* the deleteAssetFromDb call in flight
    upd,           \* the updateAssetInDb call in flight
    SERVER_URL,    \* config/constants: "" when no server is configured
    server,        \* server db.assets: the array of asset records
    disk,          \* server uploads directory: file n holds disk[n], 0 once unlinked
    syncs,         \* the syncFromServer calls, one per slot
    ops,           \* the orchestrator operations, one per slot
    isLoading,     \* useAppStore.isLoading
    fresh,         \* identifiers UploadModal has not generated yet
    worker,        \* ThumbnailGenerator.worker: the thumbnail worker
    pendingRequests, \* ThumbnailGenerator.pendingRequests: ids of its entries
    promises       \* the promises request() has returned, in order

dbVars == <<assets, files>>
cacheVars == <<blobUrlCache, urlTable>>
callVars == <<get, del, upd>>
serverVars == <<server, disk>>
thumbVars == <<worker, pendingRequests, promises>>
orchVars == <<SERVER_URL, thumbVars, server, disk, syncs, ops, isLoading, fresh>>
vars == <<assets, files, blobUrlCache, urlTable, get, del, upd,
          SERVER_URL, server, disk, syncs, ops, isLoading, fresh,
          worker, pendingRequests, promises>>

----------------------------------------------------------------------------
(* Bounds of the model *)

\* URL.createObjectURL calls per behaviour
MaxUrls == 3

\* orchestrator operations the user starts per behaviour
MaxOps == 1

\* syncFromServer calls (startup, timer, focus) per behaviour
MaxSyncs == 1

\* syncFromServer calls per behaviour when the calls may overlap
MaxPulls == 2

\* orchestrator operations per behaviour when the calls may overlap
MaxCalls == 2

\* files uploaded to the server per behaviour when its requests are free
MaxDisk == 3

\* requests made to the ThumbnailGenerator per behaviour
MaxRequests == 3

Ids == {"a", "b"}
Slots == <<"glb", "thumbnail", "unity", "zip">>
SlotSet == {Slots[i] : i \in 1..4}

\* What callers pass.  An upload carries the model and perhaps a thumbnail
\* (blob 1); later updates bring a regenerated thumbnail (blob 2), a Unity
\* package or an FBX zip.
SaveInputs == {[glb |-> 1, thumbnail |-> t, unity |-> 0, zip |-> 0] : t \in {0, 1}}
UpdateInputs == {[thumbnail |-> 0, unity |-> 0, zip |-> 0],
                 [thumbnail |-> 2, unity |-> 0, zip |-> 0],
                 [thumbnail |-> 0, unity |-> 1, zip |-> 0],
                 [thumbnail |-> 0, unity |-> 0, zip |-> 1]}

\* db.ts line 70.  The source value is 50; the model scales it down so that
\* the eviction branch is reached with the handles of two assets.
MAX_BLOB_URL_CACHE_SIZE == 1

----------------------------------------------------------------------------
(* Blob-URL handle cache *)

Key(id, slot) == <<id, slot>>

\* blobUrlCache.get(key): the cached url, 0 when the key is absent
CacheGet(cache, key) ==
    IF \E i \in 1..Len(cache) : cache[i].key = key
    THEN (CHOOSE e \in {cache[i] : i \in 1..Len(cache)} : e.key = key).url
    ELSE 0

\* blobUrlCache.delete(key)
CacheDelete(cache, key) == SelectSeq(cache, LAMBDA e : e.key # key)

\* a revokeObjectURL without effect
RevokeNothing(table, url) == table

\* URL.revokeObjectURL(url)
Revoke(table, url) ==
    IF url \in 1..Len(table) THEN [table EXCEPT ![url].live = FALSE] ELSE table

\* a variant that evicts the entry inserted last
cleanupBlobUrlCacheNewest(c) ==
    IF Len(c.cache) > MAX_BLOB_URL_CACHE_SIZE
    THEN [cache |-> SubSeq(c.cache, 1, Len(c.cache) - 1),
          table |-> Revoke(c.table, c.cache[Len(c.cache)].url)]
    ELSE c

\* c is the pair [cache, table] the helpers work on
cleanupBlobUrlCache(c) ==
    IF Len(c.cache) > MAX_BLOB_URL_CACHE_SIZE
    THEN [cache |-> Tail(c.cache), table |-> Revoke(c.table, c.cache[1].url)]
    ELSE c

\* a URL made by createObjectURL is "blob:<origin>/<uuid>": it starts with
\* 'blob:' and is longer than 5 characters
isBlobUrlValid(url) == url > 0

getOrCreateBlobURLNoReuse(c, blob, cacheKey, forceRegenerate) ==
    LET cached == CacheGet(c.cache, cacheKey)
        c1 == IF cached # 0
              THEN [cache |-> CacheDelete(c.cache, cacheKey),
                    table |-> c.table]
              ELSE c
        c2 == cleanupBlobUrlCache(c1)
        newUrl == Len(c2.table) + 1
    IN  [cache |-> Append(c2.cache, [key |-> cacheKey, url |-> newUrl]),
         table |-> Append(c2.table,
                          [key |-> cacheKey, blob |-> blob, live |-> TRUE]),
         url   |-> newUrl]

\* returns the new [cache, table] and the url handed out
getOrCreateBlobURL(c, blob, cacheKey, forceRegenerate) ==
    LET cached == CacheGet(c.cache, cacheKey)
    IN  IF ~forceRegenerate /\ cached # 0 /\ isBlobUrlValid(cached)
        THEN [cache |-> c.cache, table |-> c.table, url |-> cached]
        ELSE LET c1 == IF cached # 0
                       THEN [cache |-> CacheDelete(c.cache, cacheKey),
                             table |-> Revoke(c.table, cached)]
                       ELSE c
                 c2 == cleanupBlobUrlCache(c1)
                 newUrl == Len(c2.table) + 1
             IN  [cache |-> Append(c2.cache, [key |-> cacheKey, url |-> newUrl]),
                  table |-> Append(c2.table,
                               [key |-> cacheKey, blob |-> blob, live |-> TRUE]),
                  url   |-> newUrl]

RECURSIVE RevokeKeys(_, _, _)
RevokeKeys(c, id, n) ==
    IF n > 4 THEN c
    ELSE LET key == Key(id, Slots[n])
             url == CacheGet(c.cache, key)
             c1  == IF url # 0
                    THEN [cache |-> CacheDelete(c.cache, key),
                          table |-> Revoke(c.table, url)]
                    ELSE c
         IN  RevokeKeys(c1, id, n + 1)

revokeBlobUrlsForAsset(c, assetId) == RevokeKeys(c, assetId, 1)

----------------------------------------------------------------------------
(* Local store: services/db *)

Names == {"n1", "n2"}
Tags == {"t1", "t2"}
Categories == {"prop", "character"}

\* the fields of StoredAsset the engine reads or writes; the descriptive
\* fields it only copies (description, vertices, polygons, ...) ride with name
NoMeta == [name |-> "", tags |-> "", categoryId |-> "", doubleSide |-> FALSE,
           thumbnailBlob |-> 0]
NoFiles == [glb |-> 0, unity |-> 0, zip |-> 0]
NoAsset == [id |-> "", name |-> "", tags |-> "", categoryId |-> "",
            doubleSide |-> FALSE, thumbnailBlob |-> 0]

\* an Asset object as the UI holds it for a stored record (useLiveQuery
\* spreads the stored item, thumbnailBlob included)
AssetOf(id, m) ==
    [id |-> id, name |-> m.name, tags |-> m.tags, categoryId |-> m.categoryId,
     doubleSide |-> m.doubleSide, thumbnailBlob |-> m.thumbnailBlob]

\* meta.categoryId && meta.categoryId !== 'all' ? meta.categoryId : 'prop'
validCategoryId(c) == IF c # "" /\ c # "all" THEN c ELSE "prop"

\* A Dexie table whose schema names id as primary key (AppDatabase): the rows
\* in primary-key order, as toArray() returns them
IdOrder == [a |-> 1, b |-> 2]
Before(x, y) == IdOrder[x] < IdOrder[y]
Keys(table) == {table[i].id : i \in 1..Len(table)}
\* table.get(id), for a stored id
Row(table, id) == table[CHOOSE i \in 1..Len(table) : table[i].id = id].rec

\* a write that stores its row and keeps what the table holds under the key
PutNoKey(table, id, rec) ==
    SelectSeq(table, LAMBDA r : Before(r.id, id))
        \o <<[id |-> id, rec |-> rec]>>
        \o SelectSeq(table, LAMBDA r : ~Before(r.id, id))

\* table.put(row): the row takes the place of the one stored under its key,
\* if any
Put(table, id, rec) ==
    SelectSeq(table, LAMBDA r : Before(r.id, id))
        \o <<[id |-> id, rec |-> rec]>>
        \o SelectSeq(table, LAMBDA r : Before(id, r.id))
\* table.delete(id)
Drop(table, id) == SelectSeq(table, LAMBDA r : r.id # id)

\* d is the pair [assets, files]; f is [glb, thumbnail, unity, zip]
saveAssetToDb(d, asset, f) ==
    [assets |-> Put(d.assets, asset.id,
                    [name |-> asset.name, tags |-> asset.tags,
                     categoryId |-> validCategoryId(asset.categoryId),
                     doubleSide |-> asset.doubleSide,
                     thumbnailBlob |-> f.thumbnail]),
     files  |-> Put(d.files, asset.id,
                    [glb |-> f.glb, unity |-> f.unity, zip |-> f.zip])]

\* the transaction of deleteAssetFromDb
deleteTransaction(d, id) ==
    [assets |-> Drop(d.assets, id), files |-> Drop(d.files, id)]

\* a || b on optional blobs
Or(a, b) == IF a # 0 THEN a ELSE b

\* a variant that keeps the metadata record the store already has
updateTransactionKeepStored(d, asset, newThumbnailBlob, newUnityBlob, newZipBlob, hasFiles, existingFiles) ==
    [assets |-> IF asset.id \in Keys(d.assets) THEN d.assets
                ELSE Put(d.assets, asset.id,
                         [name |-> asset.name, tags |-> asset.tags,
                          categoryId |-> validCategoryId(asset.categoryId),
                          doubleSide |-> asset.doubleSide,
                          thumbnailBlob |-> Or(newThumbnailBlob,
                                              asset.thumbnailBlob)]),
     files  |-> d.files]

\* the transaction of updateAssetInDb; hasFiles and existingFiles are what
\* db.files.get(asset.id) returned before it
updateTransaction(d, asset, newThumbnailBlob, newUnityBlob, newZipBlob, hasFiles, existingFiles) ==
    [assets |-> Put(d.assets, asset.id,
                    [name |-> asset.name, tags |-> asset.tags,
                     categoryId |-> validCategoryId(asset.categoryId),
                     doubleSide |-> asset.doubleSide,
                     thumbnailBlob |-> Or(newThumbnailBlob, asset.thumbnailBlob)]),
     files  |-> IF hasFiles
                THEN Put(d.files, asset.id,
                         [glb   |-> existingFiles.glb,
                          unity |-> Or(newUnityBlob, existingFiles.unity),
                          zip   |-> Or(newZipBlob, existingFiles.zip)])
                ELSE d.files]

\* getAssetWithBlobs after both reads: the four getOrCreateBlobURL calls in
\* source order.  m is the metadata read, fl the files record read (hasFiles
\* FALSE when db.files.get returned undefined).  Records written by this
\* code base carry no legacy url fields, so a slot without blob yields 0.
Handles(c, id, m, hasFiles, fl, force) ==
    LET r1 == IF hasFiles /\ fl.glb # 0
              THEN getOrCreateBlobURL(c, fl.glb, Key(id, "glb"), force)
              ELSE [cache |-> c.cache, table |-> c.table, url |-> 0]
        r2 == IF m.thumbnailBlob # 0
              THEN getOrCreateBlobURL(r1, m.thumbnailBlob, Key(id, "thumbnail"), force)
              ELSE [cache |-> r1.cache, table |-> r1.table, url |-> 0]
        r3 == IF hasFiles /\ fl.unity # 0
              THEN getOrCreateBlobURL(r2, fl.unity, Key(id, "unity"), force)
              ELSE [cache |-> r2.cache, table |-> r2.table, url |-> 0]
        r4 == IF hasFiles /\ fl.zip # 0
              THEN getOrCreateBlobURL(r3, fl.zip, Key(id, "zip"), force)
              ELSE [cache |-> r3.cache, table |-> r3.table, url |-> 0]
    IN  [cache |-> r4.cache, table |-> r4.table,
         url |-> r1.url, thumbnail |-> r2.url,
         unityPackageUrl |-> r3.url, fbxZipUrl |-> r4.url]

----------------------------------------------------------------------------
(* Calls on the store and the handle cache *)

\* a syncFromServer call: the list it fetched, its position in the for loop
\* and the blobs downloaded for the asset at hand.  quiet records history for
\* the properties: no orchestrator operation has been in flight during the
\* call (kept until the call returns).
IdleSync == [pc |-> "idle", list |-> << >>, i |-> 0, glb |-> 0,
             thumbnail |-> 0, unity |-> 0, zip |-> 0, result |-> FALSE,
             quiet |-> TRUE]

\* an orchestrator operation: its arguments, the locals that live across its
\* awaits, and what it reported.  Four fields record history for the
\* properties: wrote (the local write has committed), remoteFails (the pushes
\* of deleteAssets that the server rejected or the network failed), syncSaved
\* (a sync saved the record of the operation's asset after the local write,
\* kept until the operation returns) and racing (the syncs still in flight that were in flight at some
\* moment of a deleteAsset call)
IdleOp == [kind |-> "", pc |-> "idle", asset |-> NoAsset,
           glb |-> 0, thumbnail |-> 0, unity |-> 0, zip |-> 0,
           meta |-> NoMeta, hasFiles |-> FALSE, existingFiles |-> NoFiles,
           list |-> << >>, queue |-> << >>, successCount |-> 0, failCount |-> 0,
           wrote |-> FALSE, remote |-> "", remoteFails |-> 0,
           syncSaved |-> FALSE, racing |-> {},
           toast |-> "", returned |-> FALSE]

\* a getAssetWithBlobs call.  k, hasFiles and existingFiles are used where the
\* getOrCreateBlobURL calls are taken one at a time; revoked records history
\* for the properties there: the URLs the latest of these calls revoked
IdleGet == [pc |-> "idle", id |-> "", force |-> FALSE, meta |-> NoMeta,
            found |-> FALSE, url |-> 0, thumbnail |-> 0,
            unityPackageUrl |-> 0, fbxZipUrl |-> 0,
            k |-> 0, hasFiles |-> FALSE, existingFiles |-> NoFiles,
            revoked |-> {}]
IdleDel == [pc |-> "idle", id |-> ""]
IdleUpd == [pc |-> "idle", asset |-> NoAsset, thumbnail |-> 0, unity |-> 0,
            zip |-> 0, hasFiles |-> FALSE, existingFiles |-> NoFiles]

\* the worker of a new ThumbnailGenerator: running, nothing posted to it
\* (inbox) and no reply of it waiting for the page's onmessage (outbox)
IdleWorker == [terminated |-> FALSE, failed |-> FALSE, started |-> FALSE,
               inbox |-> {}, outbox |-> {}]

Db == [assets |-> assets, files |-> files]
Cache == [cache |-> blobUrlCache, table |-> urlTable]

InitCache ==
    /\ assets = << >>
    /\ files = << >>
    /\ blobUrlCache = << >>
    /\ urlTable = << >>
    /\ get = IdleGet
    /\ del = IdleDel
    /\ upd = IdleUpd
    /\ SERVER_URL = ""
    /\ server = << >>
    /\ disk = << >>
    /\ syncs = [n \in 1..MaxSyncs |-> IdleSync]
    /\ ops = [n \in 1..MaxOps |-> IdleOp]
    /\ isLoading = FALSE
    /\ worker = IdleWorker
    /\ pendingRequests = {}
    /\ promises = << >>
    /\ fresh = Ids

\* saveAssetToDb(asset, files): the records are built from the arguments and
\* written in one transaction
DbSave(id, f) ==
    /\ LET d == saveAssetToDb(Db, [NoAsset EXCEPT !.id = id, !.name = "n1",
                                   !.tags = "t1", !.categoryId = "prop"], f)
       IN  assets' = d.assets /\ files' = d.files
    /\ UNCHANGED <<blobUrlCache, urlTable, get, del, upd, orchVars>>

\* a caller obtains the Asset object it will pass to updateAssetInDb: an
\* item of the asset list, or what getAssetFull returned to a page
UpdHold(id) ==
    /\ upd.pc = "idle"
    /\ id \in Keys(assets)
    /\ upd' = [IdleUpd EXCEPT !.pc = "held", !.asset = AssetOf(id, Row(assets, id))]
    /\ UNCHANGED <<assets, files, blobUrlCache, urlTable, get, del, orchVars>>

\* updateAssetInDb(asset, t, u, z) up to its first await: db.files.get is
\* issued
UpdCall(t, u, z) ==
    /\ upd.pc = "held"
    /\ upd' = [upd EXCEPT !.pc = "read", !.thumbnail = t, !.unity = u, !.zip = z]
    /\ UNCHANGED <<assets, files, blobUrlCache, urlTable, get, del, orchVars>>

\* db.files.get(asset.id) resolves
UpdRead ==
    /\ upd.pc = "read"
    /\ upd' = [upd EXCEPT !.pc = "tx",
                          !.hasFiles = upd.asset.id \in Keys(files),
                          !.existingFiles = IF upd.asset.id \in Keys(files)
                                            THEN Row(files, upd.asset.id)
                                            ELSE NoFiles]
    /\ UNCHANGED <<assets, files, blobUrlCache, urlTable, get, del, orchVars>>

\* the transaction of updateAssetInDb commits
UpdCommit ==
    /\ upd.pc = "tx"
    /\ LET d == updateTransaction(Db, upd.asset, upd.thumbnail, upd.unity,
                                  upd.zip, upd.hasFiles, upd.existingFiles)
       IN  assets' = d.assets /\ files' = d.files
    /\ upd' = IdleUpd
    /\ UNCHANGED <<blobUrlCache, urlTable, get, del, orchVars>>

\* deleteAssetFromDb up to its await: revokeBlobUrlsForAsset runs at the call
DelCall(id) ==
    /\ del.pc = "idle"
    /\ LET c == revokeBlobUrlsForAsset(Cache, id)
       IN  blobUrlCache' = c.cache /\ urlTable' = c.table
    /\ del' = [pc |-> "tx", id |-> id]
    /\ UNCHANGED <<assets, files, get, upd, orchVars>>

\* the transaction of deleteAssetFromDb commits
DelCommit ==
    /\ del.pc = "tx"
    /\ LET d == deleteTransaction(Db, del.id)
       IN  assets' = d.assets /\ files' = d.files
    /\ del' = IdleDel
    /\ UNCHANGED <<blobUrlCache, urlTable, get, upd, orchVars>>

\* getAssetWithBlobs(id, forceRegenerateUrls) up to db.assets.get
GetCall(id, force) ==
    /\ get.pc \in {"idle", "done"}
    /\ get' = [IdleGet EXCEPT !.pc = "meta", !.id = id, !.force = force]
    /\ UNCHANGED <<assets, files, blobUrlCache, urlTable, del, upd, orchVars>>

\* db.assets.get(id) resolves; without metadata the call returns undefined
GetMeta ==
    /\ get.pc = "meta"
    /\ get' = IF get.id \in Keys(assets)
              THEN [get EXCEPT !.pc = "files", !.meta = Row(assets, get.id)]
              ELSE [IdleGet EXCEPT !.pc = "done", !.id = get.id]
    /\ UNCHANGED <<assets, files, blobUrlCache, urlTable, del, upd, orchVars>>

\* db.files.get(id) resolves and the rest of getAssetWithBlobs runs to its
\* return without yielding
GetFiles ==
    /\ get.pc = "files"
    /\ LET hasFiles == get.id \in Keys(files)
           fl == IF hasFiles THEN Row(files, get.id) ELSE NoFiles
           r  == Handles(Cache, get.id, get.meta, hasFiles, fl, get.force)
       IN  /\ Len(r.table) <= MaxUrls
           /\ blobUrlCache' = r.cache
           /\ urlTable' = r.table
           /\ get' = [IdleGet EXCEPT !.pc = "done", !.id = get.id,
                                 !.found = TRUE, !.url = r.url, !.thumbnail = r.thumbnail,
                                 !.unityPackageUrl = r.unityPackageUrl,
                                 !.fbxZipUrl = r.fbxZipUrl]
    /\ UNCHANGED <<assets, files, del, upd, orchVars>>

NextCache ==
    \/ \E id \in Ids, f \in SaveInputs : DbSave(id, f)
    \/ \E id \in Ids : DelCall(id)
    \/ DelCommit
    \/ \E id \in Ids, force \in BOOLEAN : GetCall(id, force)
    \/ GetMeta
    \/ GetFiles

SpecCache == InitCache /\ [][NextCache]_vars

\* getAssetWithBlobs with its getOrCreateBlobURL calls taken one at a time.
\* db.files.get(id) resolves; what follows runs without yielding, so nothing
\* else runs until the call has returned
GetRead ==
    /\ get.pc = "files"
    /\ LET hasFiles == get.id \in Keys(files)
           fl == IF hasFiles THEN Row(files, get.id) ELSE NoFiles
       IN  /\ Len(Handles(Cache, get.id, get.meta, hasFiles, fl, get.force).table)
                 <= MaxUrls
           /\ get' = [get EXCEPT !.pc = "slot", !.k = 1, !.hasFiles = hasFiles,
                                 !.existingFiles = fl]
    /\ UNCHANGED <<assets, files, blobUrlCache, urlTable, del, upd, orchVars>>

\* the properties of the Asset returned, in the order they are filled
Fields == <<"url", "thumbnail", "unityPackageUrl", "fbxZipUrl">>

\* the blob getAssetWithBlobs has for the slot at hand, 0 when it has none
SlotBlob(g) ==
    IF g.k = 2 THEN g.meta.thumbnailBlob
    ELSE IF ~g.hasFiles THEN 0
    ELSE IF g.k = 1 THEN g.existingFiles.glb
    ELSE IF g.k = 3 THEN g.existingFiles.unity
    ELSE g.existingFiles.zip

\* one slot: getOrCreateBlobURL(blob, `${id}:<slot>`, forceRegenerateUrls)
\* when there is a blob; after the fourth slot the Asset is returned
GetSlot ==
    /\ get.pc = "slot"
    /\ LET blob == SlotBlob(get)
           r == IF blob # 0
                THEN getOrCreateBlobURL(Cache, blob, Key(get.id, Slots[get.k]),
                                        get.force)
                ELSE [cache |-> blobUrlCache, table |-> urlTable, url |-> 0]
           g == [get EXCEPT ![Fields[get.k]] = r.url,
                            !.revoked = {u \in 1..Len(urlTable) :
                                            urlTable[u].live /\ ~r.table[u].live}]
       IN  /\ blobUrlCache' = r.cache
           /\ urlTable' = r.table
           /\ get' = IF get.k < 4
                     THEN [g EXCEPT !.k = @ + 1]
                     ELSE [IdleGet EXCEPT !.pc = "done", !.id = g.id,
                              !.found = TRUE, !.url = g.url,
                              !.thumbnail = g.thumbnail,
                              !.unityPackageUrl = g.unityPackageUrl,
                              !.fbxZipUrl = g.fbxZipUrl, !.revoked = g.revoked]
    /\ UNCHANGED <<assets, files, del, upd, orchVars>>

\* the slots of a call are under way
InSlots == get.pc = "slot"

\* the other calls on the store, between the runs of slots
SaveBetween(id, f) == ~InSlots /\ DbSave(id, f)
DelCallBetween(id) == ~InSlots /\ DelCall(id)
DelCommitBetween == ~InSlots /\ DelCommit

NextHandles ==
    \/ \E id \in Ids, f \in SaveInputs : SaveBetween(id, f)
    \/ \E id \in Ids : DelCallBetween(id)
    \/ DelCommitBetween
    \/ \E id \in Ids, force \in BOOLEAN : GetCall(id, force)
    \/ GetMeta
    \/ GetRead
    \/ GetSlot

SpecHandles == InitCache /\ [][NextHandles]_vars

\* the store alone: saves, updates and deletes issued in any order by the
\* pages and the sync, an update with the Asset object its caller holds
NextStore ==
    \/ \E id \in Ids, f \in SaveInputs : DbSave(id, f)
    \/ \E id \in Ids : UpdHold(id)
    \/ \E f \in UpdateInputs : UpdCall(f.thumbnail, f.unity, f.zip)
    \/ UpdRead
    \/ UpdCommit
    \/ \E id \in Ids : DelCall(id)
    \/ DelCommit

SpecStore == InitCache /\ [][NextStore]_vars

----------------------------------------------------------------------------
(* The catalog server: server/index.js *)

\* sv is the pair [server, disk]
IndexOf(list, id) ==
    IF \E i \in 1..Len(list) : list[i].id = id
    THEN CHOOSE i \in 1..Len(list) :
            list[i].id = id /\ \A j \in 1..(i - 1) : list[j].id # id
    ELSE 0

\* multer stores an uploaded file under a name no earlier file has
Upload(dk, blob) == IF blob # 0 THEN Append(dk, blob) ELSE dk
NameOf(dk, blob) == IF blob # 0 THEN Len(dk) + 1 ELSE 0

\* fs.unlinkSync of the file a record property names
Unlink(dk, name) == IF name \in 1..Len(dk) THEN [dk EXCEPT ![name] = 0] ELSE dk

\* deleteAssetFiles(asset)
deleteAssetFiles(dk, rec) ==
    Unlink(Unlink(Unlink(Unlink(dk, rec.url), rec.thumbnail),
                  rec.unityPackageUrl), rec.fbxZipUrl)

\* POST /api/assets with valid files: the record is pushed onto db.assets
PostAsset(sv, asset, f) ==
    LET d1 == Upload(sv.disk, f.glb)
        d2 == Upload(d1, f.thumbnail)
        d3 == Upload(d2, f.unity)
        d4 == Upload(d3, f.zip)
        rec == [id |-> asset.id, name |-> asset.name, tags |-> asset.tags,
                categoryId |-> asset.categoryId, doubleSide |-> asset.doubleSide,
                url |-> NameOf(sv.disk, f.glb),
                thumbnail |-> NameOf(d1, f.thumbnail),
                unityPackageUrl |-> NameOf(d2, f.unity),
                fbxZipUrl |-> NameOf(d3, f.zip)]
    IN  [server |-> Append(sv.server, rec), disk |-> d4, ok |-> TRUE]

\* PUT /api/assets/:id
PutAsset(sv, asset) ==
    LET index == IndexOf(sv.server, asset.id)
    IN  IF index # 0
        THEN [server |-> [sv.server EXCEPT ![index] =
                             [@ EXCEPT !.name = asset.name, !.tags = asset.tags,
                                       !.categoryId = asset.categoryId,
                                       !.doubleSide = asset.doubleSide]],
              disk |-> sv.disk, ok |-> TRUE]
        ELSE [server |-> sv.server, disk |-> sv.disk, ok |-> FALSE]

\* PUT /api/assets/:id/files with valid files
PutAssetFiles(sv, asset, f) ==
    LET index == IndexOf(sv.server, asset.id)
    IN  IF index = 0
        THEN [server |-> sv.server, disk |-> sv.disk, ok |-> FALSE]
        ELSE LET cur == sv.server[index]
                 u0 == IF f.glb # 0 THEN Unlink(sv.disk, cur.url) ELSE sv.disk
                 u1 == IF f.thumbnail # 0 THEN Unlink(u0, cur.thumbnail) ELSE u0
                 u2 == IF f.unity # 0 THEN Unlink(u1, cur.unityPackageUrl) ELSE u1
                 u3 == IF f.zip # 0 THEN Unlink(u2, cur.fbxZipUrl) ELSE u2
                 d1 == Upload(u3, f.glb)
                 d2 == Upload(d1, f.thumbnail)
                 d3 == Upload(d2, f.unity)
                 d4 == Upload(d3, f.zip)
                 rec == [id |-> cur.id, name |-> asset.name, tags |-> asset.tags,
                         categoryId |-> asset.categoryId,
                         doubleSide |-> asset.doubleSide,
                         url |-> IF f.glb # 0 THEN NameOf(u3, f.glb) ELSE cur.url,
                         thumbnail |-> IF f.thumbnail # 0
                                       THEN NameOf(d1, f.thumbnail)
                                       ELSE cur.thumbnail,
                         unityPackageUrl |-> IF f.unity # 0
                                             THEN NameOf(d2, f.unity)
                                             ELSE cur.unityPackageUrl,
                         fbxZipUrl |-> IF f.zip # 0 THEN NameOf(d3, f.zip)
                                       ELSE cur.fbxZipUrl]
             IN  [server |-> [sv.server EXCEPT ![index] = rec],
                  disk |-> d4, ok |-> TRUE]

\* DELETE /api/assets/:id
DeleteAsset(sv, id) ==
    LET index == IndexOf(sv.server, id)
    IN  IF index # 0
        THEN [server |-> SelectSeq(sv.server, LAMBDA r : r.id # id),
              disk |-> deleteAssetFiles(sv.disk, sv.server[index]),
              ok |-> TRUE]
        ELSE [server |-> sv.server, disk |-> sv.disk, ok |-> FALSE]

\* GET /uploads/<name>: the file's bytes, 0 when there is no such file
Download(dk, name) == IF name \in 1..Len(dk) THEN dk[name] ELSE 0

Sv == [server |-> server, disk |-> disk]

----------------------------------------------------------------------------
(* syncFromServer: services/serverSync *)

\* a variant that takes every SERVER_URL for a server
serverConfiguredAlways(url) == TRUE

\* the guard every serverSync function starts with: without it
\* (!SERVER_URL || SERVER_URL.trim() === '') the function returns false
\* before any fetch
serverConfigured(url) == url # ""

\* isServerAvailable(): false without a request when no server is
\* configured, else whether the HEAD request was answered with success
isServerAvailable(url, outcome) ==
    IF ~serverConfigured(url) THEN FALSE ELSE outcome = "ok"

\* how a request can end: the server answers, it answers with a non-success
\* status (rate limit, rejected payload, 5xx), or fetch throws
Outcomes == {"ok", "rejected", "neterr"}

\* how GET /api/assets can end: as any request, or answered with success by
\* a body that is not an array
ListOutcomes == Outcomes \cup {"notArray"}

\* which downloads of one asset fail on the network
DownloadFailures == {"none", "glb", "optional"}

\* syncFromServer is called (startup effect, timer tick or focus event); with
\* no SERVER_URL it returns false at once, otherwise GET /api/assets is sent
SyncCall(n) ==
    /\ syncs[n].pc = "idle"
    /\ syncs' = [syncs EXCEPT ![n] =
                    IF ~serverConfigured(SERVER_URL)
                    THEN [IdleSync EXCEPT !.pc = "done", !.result = FALSE]
                    ELSE [IdleSync EXCEPT !.pc = "list",
                             !.quiet = \A k \in DOMAIN ops :
                                          ops[k].pc \in {"idle", "done"}]]
    /\ ops' = [k \in DOMAIN ops |->
                  IF serverConfigured(SERVER_URL) /\ ops[k].kind = "deleteAsset"
                     /\ ops[k].pc \notin {"idle", "done"}
                  THEN [ops[k] EXCEPT !.racing = @ \cup {n}]
                  ELSE ops[k]]
    /\ UNCHANGED <<dbVars, cacheVars, callVars, SERVER_URL, thumbVars, server, disk,
                   isLoading, fresh>>

\* a sync that starts once the earlier ones have finished: the timer period
\* (30 s) is long against one pull
SyncStart(n) ==
    /\ \A k \in 1..(n - 1) : syncs[k].pc = "done"
    /\ SyncCall(n)

\* a sync called whatever the earlier ones are doing: a timer tick or a focus
\* event during a pull (the calls take the slots in order)
SyncAgain(n) ==
    /\ \A k \in 1..(n - 1) : syncs[k].pc # "idle"
    /\ SyncCall(n)

\* the position of the next asset of the list the loop works on: an asset
\* without url is skipped
RECURSIVE NextWithUrl(_, _)
NextWithUrl(list, i) ==
    IF i > Len(list) THEN i
    ELSE IF list[i].url = 0 THEN NextWithUrl(list, i + 1) ELSE i

\* a variant whose loop ends with false
AtAssetEndsFalse(sy, i) ==
    LET j == NextWithUrl(sy.list, i)
    IN  IF j > Len(sy.list)
        THEN [IdleSync EXCEPT !.pc = "done", !.result = FALSE]
        ELSE [IdleSync EXCEPT !.pc = "download", !.list = sy.list, !.i = j,
                              !.quiet = sy.quiet]

\* the sync at the top of its for loop, at position i
AtAsset(sy, i) ==
    LET j == NextWithUrl(sy.list, i)
    IN  IF j > Len(sy.list)
        THEN [IdleSync EXCEPT !.pc = "done", !.result = TRUE]
        ELSE [IdleSync EXCEPT !.pc = "download", !.list = sy.list, !.i = j,
                              !.quiet = sy.quiet]

\* the operations once sync n has moved to sy: a sync that has returned
\* races no more
Unrace(o, n, sy) ==
    [k \in DOMAIN o |-> IF sy.pc = "done"
                        THEN [o[k] EXCEPT !.racing = @ \ {n}] ELSE o[k]]

\* the response to GET /api/assets arrives
SyncList(n, outcome) ==
    /\ syncs[n].pc = "list"
    /\ syncs' = [syncs EXCEPT ![n] =
                    IF outcome = "ok"
                    THEN AtAsset([syncs[n] EXCEPT !.list = server], 1)
                    ELSE [IdleSync EXCEPT !.pc = "done", !.result = FALSE]]
    /\ ops' = Unrace(ops, n, syncs'[n])
    /\ UNCHANGED <<dbVars, cacheVars, callVars, SERVER_URL, thumbVars, server, disk,
                   isLoading, fresh>>

\* the four fetches of the asset at hand; a failed glb fetch skips the asset,
\* a failed optional fetch leaves that blob null
SyncDownload(n, failure) ==
    /\ syncs[n].pc = "download"
    /\ LET sy == syncs[n]
           rec == sy.list[sy.i]
           glbBlob == IF failure = "glb" THEN 0 ELSE Download(disk, rec.url)
           opt(name) == IF failure = "optional" THEN 0 ELSE Download(disk, name)
       IN  syncs' = [syncs EXCEPT ![n] =
                        IF glbBlob = 0
                        THEN AtAsset(sy, sy.i + 1)
                        ELSE [sy EXCEPT !.pc = "save", !.glb = glbBlob,
                                        !.thumbnail = opt(rec.thumbnail),
                                        !.unity = opt(rec.unityPackageUrl),
                                        !.zip = opt(rec.fbxZipUrl)]]
    /\ ops' = Unrace(ops, n, syncs'[n])
    /\ UNCHANGED <<dbVars, cacheVars, callVars, SERVER_URL, thumbVars, server, disk,
                   isLoading, fresh>>

\* saveAssetToDb(assetToSave, blobs) of the asset at hand commits
SyncSave(n) ==
    /\ syncs[n].pc = "save"
    /\ LET sy == syncs[n]
           rec == sy.list[sy.i]
           assetToSave == [NoAsset EXCEPT !.id = rec.id, !.name = rec.name,
                                          !.tags = rec.tags,
                                          !.categoryId = rec.categoryId,
                                          !.doubleSide = rec.doubleSide]
           d == saveAssetToDb(Db, assetToSave,
                              [glb |-> sy.glb, thumbnail |-> sy.thumbnail,
                               unity |-> sy.unity, zip |-> sy.zip])
       IN  /\ assets' = d.assets
           /\ files' = d.files
           /\ syncs' = [syncs EXCEPT ![n] = AtAsset(sy, sy.i + 1)]
           /\ ops' = Unrace([k \in DOMAIN ops |->
                                IF ops[k].pc = "push" /\ ops[k].wrote
                                   /\ ~ops[k].returned
                                   /\ ops[k].asset.id = rec.id
                                THEN [ops[k] EXCEPT !.syncSaved = TRUE]
                                ELSE ops[k]],
                            n, syncs'[n])
    /\ UNCHANGED <<cacheVars, callVars, SERVER_URL, thumbVars, server, disk,
                   isLoading, fresh>>

----------------------------------------------------------------------------
(* The orchestrator: context/AssetContext *)

\* the operations that raise the loading overlay and await their push
Awaited == {"addAsset", "deleteAsset", "deleteAssets", "renameAsset",
            "updateAssetFile", "updateAssetInfo"}
\* the operations that fire their push without awaiting it
Detached == {"updateCategory", "updateTags", "updateDoubleSide"}

Other(set, x) == CHOOSE y \in set : y # x

\* the asset list of the UI: useLiveQuery re-reads db.assets on every change
\* and maps each stored item to an Asset
assetsQuery == [i \in 1..Len(assets) |-> AssetOf(assets[i].id, assets[i].rec)]
\* the ids the list shows
AssetList == {assetsQuery[i].id : i \in 1..Len(assetsQuery)}

\* the syncs between their call and their return
InFlight == {s \in DOMAIN syncs : syncs[s].pc \notin {"idle", "done"}}

\* the syncs once an operation has started
Disturbed == [s \in DOMAIN syncs |->
                 IF s \in InFlight THEN [syncs[s] EXCEPT !.quiet = FALSE]
                 ELSE syncs[s]]

\* the user starts an operation once the earlier ones have returned; a push
\* that was not awaited may still be in flight then
CanStart(n) ==
    /\ ops[n].pc = "idle"
    /\ \A k \in 1..(n - 1) : ops[k].returned

\* addAsset(newAsset, files) up to its first await
CallAdd(n, id, f) ==
    /\ ops[n].pc = "idle"
    /\ id \in fresh
    /\ fresh' = fresh \ {id}
    /\ isLoading' = TRUE
    /\ ops' = [ops EXCEPT ![n] =
                  [IdleOp EXCEPT !.kind = "addAsset", !.pc = "save",
                                 !.asset = [NoAsset EXCEPT !.id = id,
                                               !.name = "n1", !.tags = "t1",
                                               !.categoryId = "prop"],
                                 !.glb = f.glb, !.thumbnail = f.thumbnail,
                                 !.unity = f.unity, !.zip = f.zip]]
    /\ syncs' = Disturbed
    /\ UNCHANGED <<dbVars, cacheVars, callVars, SERVER_URL, thumbVars, server, disk>>

\* the same, started once the earlier operations have returned
StartAdd(n, id, f) == CanStart(n) /\ CallAdd(n, id, f)

\* saveAssetToDb of addAsset commits
AddSave(n) ==
    /\ ops[n].pc = "save"
    /\ LET op == ops[n]
           d == saveAssetToDb(Db, op.asset,
                              [glb |-> op.glb, thumbnail |-> op.thumbnail,
                               unity |-> op.unity, zip |-> op.zip])
       IN  /\ assets' = d.assets
           /\ files' = d.files
           /\ ops' = [ops EXCEPT ![n] = [op EXCEPT !.pc = "push", !.wrote = TRUE]]
    /\ UNCHANGED <<cacheVars, callVars, SERVER_URL, thumbVars, server, disk, syncs,
                   isLoading, fresh>>

\* renameAsset, updateTags, updateCategory, updateAssetInfo, updateAssetFile
\* up to the first await of updateAssetInDb; updated is the { ...asset, ... }
\* object built from the caller's asset
CallUpdate(n, kind, updated, unity, zip) ==
    /\ ops[n].pc = "idle"
    /\ isLoading' = IF kind \in Awaited THEN TRUE ELSE isLoading
    /\ ops' = [ops EXCEPT ![n] =
                  [IdleOp EXCEPT !.kind = kind, !.pc = "read", !.asset = updated,
                                 !.unity = unity, !.zip = zip]]
    /\ syncs' = Disturbed
    /\ UNCHANGED <<dbVars, cacheVars, callVars, SERVER_URL, thumbVars, server, disk,
                   fresh>>

\* the same, started once the earlier operations have returned
StartUpdate(n, kind, updated, unity, zip) == CanStart(n) /\ CallUpdate(n, kind, updated, unity, zip)

\* updateAssetInfo: { ...asset, ...(updates.name && ...), ... }
ApplyUpdates(asset, updates) ==
    [asset EXCEPT
        !.name = IF updates.name # "" THEN updates.name ELSE @,
        !.categoryId = IF updates.categoryId # "" THEN updates.categoryId ELSE @,
        !.tags = IF updates.tags # "" THEN updates.tags ELSE @]

InfoUpdates(asset) ==
    {[name |-> Other(Names, asset.name), categoryId |-> "", tags |-> ""],
     [name |-> "", categoryId |-> Other(Categories, asset.categoryId),
      tags |-> Other(Tags, asset.tags)]}

\* db.files.get of updateAssetInDb resolves
UpdateRead(n) ==
    /\ ops[n].pc = "read"
    /\ LET id == ops[n].asset.id
       IN  ops' = [ops EXCEPT ![n] =
                      [@ EXCEPT !.pc = "tx", !.hasFiles = id \in Keys(files),
                                !.existingFiles = IF id \in Keys(files)
                                                  THEN Row(files, id) ELSE NoFiles]]
    /\ UNCHANGED <<dbVars, cacheVars, callVars, SERVER_URL, thumbVars, server, disk, syncs,
                   isLoading, fresh>>

\* the transaction of updateAssetInDb commits; an operation that does not
\* await its push reports and returns right after sending it
UpdateTx(n) ==
    /\ ops[n].pc = "tx"
    /\ LET op == ops[n]
           d == updateTransaction(Db, op.asset, op.thumbnail, op.unity, op.zip,
                                  op.hasFiles, op.existingFiles)
       IN  /\ assets' = d.assets
           /\ files' = d.files
           /\ ops' = [ops EXCEPT ![n] =
                  [op EXCEPT !.pc = "push", !.wrote = TRUE,
                             !.returned = op.kind \in Detached,
                             !.toast = IF op.kind \in {"updateCategory", "updateTags"}
                                       THEN "success" ELSE @]]
    /\ UNCHANGED <<cacheVars, callVars, SERVER_URL, thumbVars, server, disk, syncs,
                   isLoading, fresh>>

\* deleteAsset(asset) up to its first await: deleteAssetFromDb revokes the
\* handles at once
CallDelete(n, id) ==
    /\ ops[n].pc = "idle"
    /\ isLoading' = TRUE
    /\ LET c == revokeBlobUrlsForAsset(Cache, id)
       IN  blobUrlCache' = c.cache /\ urlTable' = c.table
    /\ ops' = [ops EXCEPT ![n] =
                  [IdleOp EXCEPT !.kind = "deleteAsset", !.pc = "deltx",
                                 !.asset = [NoAsset EXCEPT !.id = id],
                                 !.racing = InFlight]]
    /\ syncs' = Disturbed
    /\ UNCHANGED <<dbVars, callVars, SERVER_URL, thumbVars, server, disk, fresh>>

\* the same, started once the earlier operations have returned
StartDelete(n, id) == CanStart(n) /\ CallDelete(n, id)

\* deleteAssets(assetsToDelete) up to the first await of its loop
CallDeleteMany(n, list) ==
    /\ ops[n].pc = "idle"
    /\ Len(list) > 0
    /\ isLoading' = TRUE
    /\ LET c == revokeBlobUrlsForAsset(Cache, list[1])
       IN  blobUrlCache' = c.cache /\ urlTable' = c.table
    /\ ops' = [ops EXCEPT ![n] =
                  [IdleOp EXCEPT !.kind = "deleteAssets", !.pc = "deltx",
                                 !.asset = [NoAsset EXCEPT !.id = list[1]],
                                 !.list = list, !.queue = list]]
    /\ syncs' = Disturbed
    /\ UNCHANGED <<dbVars, callVars, SERVER_URL, thumbVars, server, disk, fresh>>

\* the same, started once the earlier operations have returned
StartDeleteMany(n, list) == CanStart(n) /\ CallDeleteMany(n, list)

\* the transaction of deleteAssetFromDb commits
DeleteTx(n) ==
    /\ ops[n].pc = "deltx"
    /\ LET d == deleteTransaction(Db, ops[n].asset.id)
       IN  assets' = d.assets /\ files' = d.files
    /\ ops' = [ops EXCEPT ![n] = [@ EXCEPT !.pc = "push", !.wrote = TRUE]]
    /\ UNCHANGED <<cacheVars, callVars, SERVER_URL, thumbVars, server, disk, syncs,
                   isLoading, fresh>>

\* updateDoubleSide(asset, checked) up to its first await: getAssetFull
CallDoubleSide(n, updated) ==
    /\ ops[n].pc = "idle"
    /\ ops' = [ops EXCEPT ![n] =
                  [IdleOp EXCEPT !.kind = "updateDoubleSide", !.pc = "gmeta",
                                 !.asset = updated]]
    /\ syncs' = Disturbed
    /\ UNCHANGED <<dbVars, cacheVars, callVars, SERVER_URL, thumbVars, server, disk,
                   isLoading, fresh>>

\* the same, started once the earlier operations have returned
StartDoubleSide(n, updated) == CanStart(n) /\ CallDoubleSide(n, updated)

\* db.assets.get of getAssetWithBlobs resolves; without metadata fullAsset is
\* undefined and updateDoubleSide goes straight to its metadata push
DoubleSideMeta(n) ==
    /\ ops[n].pc = "gmeta"
    /\ LET id == ops[n].asset.id
       IN  ops' = [ops EXCEPT ![n] =
                      IF id \in Keys(assets)
                      THEN [@ EXCEPT !.pc = "gfiles", !.meta = Row(assets, id)]
                      ELSE [@ EXCEPT !.pc = "push", !.returned = TRUE]]
    /\ UNCHANGED <<dbVars, cacheVars, callVars, SERVER_URL, thumbVars, server, disk, syncs,
                   isLoading, fresh>>

\* db.files.get of getAssetWithBlobs resolves and getAssetWithBlobs returns;
\* without fullAsset.url nothing is written locally
DoubleSideFiles(n) ==
    /\ ops[n].pc = "gfiles"
    /\ LET op == ops[n]
           id == op.asset.id
           hasFiles == id \in Keys(files)
           fl == IF hasFiles THEN Row(files, id) ELSE NoFiles
           r == Handles(Cache, id, op.meta, hasFiles, fl, FALSE)
       IN  /\ Len(r.table) <= MaxUrls
           /\ blobUrlCache' = r.cache
           /\ urlTable' = r.table
           /\ ops' = [ops EXCEPT ![n] =
                         IF r.url # 0
                         THEN [op EXCEPT !.pc = "dsread", !.meta = NoMeta]
                         ELSE [op EXCEPT !.pc = "push", !.meta = NoMeta,
                                         !.returned = TRUE]]
    /\ UNCHANGED <<dbVars, callVars, SERVER_URL, thumbVars, server, disk, syncs,
                   isLoading, fresh>>

\* db.files.get(asset.id) of updateDoubleSide resolves
DoubleSideRead(n) ==
    /\ ops[n].pc = "dsread"
    /\ LET id == ops[n].asset.id
       IN  ops' = [ops EXCEPT ![n] =
                      IF id \in Keys(files) /\ Row(files, id).glb # 0
                      THEN [@ EXCEPT !.pc = "gen"]
                      ELSE [@ EXCEPT !.pc = "read"]]
    /\ UNCHANGED <<dbVars, cacheVars, callVars, SERVER_URL, thumbVars, server, disk, syncs,
                   isLoading, fresh>>

\* thumbnailGenerator.generateFromBlob settles: a new thumbnail, null, or a
\* rejection that the catch block reports
GenResults == {"blob", "null", "error"}

DoubleSideGenerated(n, result) ==
    /\ ops[n].pc = "gen"
    /\ ops' = [ops EXCEPT ![n] =
                  IF result = "error"
                  THEN [@ EXCEPT !.pc = "done", !.toast = "error",
                                 !.returned = TRUE]
                  ELSE [@ EXCEPT !.pc = "read",
                                 !.thumbnail = IF result = "blob" THEN 2 ELSE 0]]
    /\ UNCHANGED <<dbVars, cacheVars, callVars, SERVER_URL, thumbVars, server, disk, syncs,
                   isLoading, fresh>>

\* what the request of an operation does on the server when it is served
Served(op) ==
    CASE op.kind = "addAsset" ->
            PostAsset(Sv, op.asset, [glb |-> op.glb, thumbnail |-> op.thumbnail,
                                     unity |-> op.unity, zip |-> op.zip])
      [] op.kind \in {"deleteAsset", "deleteAssets"} ->
            DeleteAsset(Sv, op.asset.id)
      [] op.kind = "updateAssetFile" ->
            PutAssetFiles(Sv, op.asset, [glb |-> 0, thumbnail |-> 0,
                                         unity |-> op.unity, zip |-> op.zip])
      [] op.kind = "updateDoubleSide" /\ op.thumbnail # 0 ->
            PutAssetFiles(Sv, op.asset, [glb |-> 0, thumbnail |-> op.thumbnail,
                                         unity |-> 0, zip |-> 0])
      [] OTHER -> PutAsset(Sv, op.asset)

\* a variant that reports what the serverSync function resolved to
toastAfterPushReportsRemote(op, remote) ==
    IF remote = "ok" THEN "success" ELSE "error"

\* the toast after the awaited push: the boolean the serverSync function
\* resolves to is dropped (.catch only logs), toast.success follows always
toastAfterPush(op, remote) == "success"

\* a variant that counts a deletion only when the server confirmed it
countDeletedRemote(op, remote) ==
    IF remote = "ok"
    THEN [successCount |-> op.successCount + 1, failCount |-> op.failCount]
    ELSE [successCount |-> op.successCount, failCount |-> op.failCount + 1]

\* the counters of deleteAssets after one iteration of its loop whose local
\* delete did not throw: successCount++ whatever the push resolved to
countDeleted(op, remote) ==
    [successCount |-> op.successCount + 1, failCount |-> op.failCount]

\* the push of an operation settles.  Without SERVER_URL the serverSync
\* function returns false without a request; a request is served, answered
\* with a non-success status, or fails on the network.  An awaited push lets
\* the operation report and return; deleteAssets goes on with its loop.
Push(n, outcome) ==
    /\ ops[n].pc = "push"
    /\ LET op == ops[n]
           r == Served(op)
           remote == IF ~serverConfigured(SERVER_URL) THEN "unconfigured"
                     ELSE IF outcome # "ok" THEN outcome
                     ELSE IF r.ok THEN "ok" ELSE "rejected"
           rest == IF op.kind = "deleteAssets" THEN Tail(op.queue) ELSE << >>
           count == IF op.kind = "deleteAssets" THEN countDeleted(op, remote)
                    ELSE [successCount |-> 0, failCount |-> 0]
           done == [op EXCEPT !.pc = "done", !.remote = remote,
                              !.syncSaved = FALSE]
       IN  /\ IF serverConfigured(SERVER_URL) /\ outcome = "ok"
              THEN server' = r.server /\ disk' = r.disk
              ELSE UNCHANGED <<server, disk>>
           /\ IF op.kind = "deleteAssets" /\ rest # << >>
              THEN LET c == revokeBlobUrlsForAsset(Cache, rest[1])
                   IN  /\ blobUrlCache' = c.cache
                       /\ urlTable' = c.table
                       /\ isLoading' = isLoading
                       /\ ops' = [ops EXCEPT ![n] =
                             [op EXCEPT !.pc = "deltx", !.remote = remote,
                                 !.asset = [NoAsset EXCEPT !.id = rest[1]],
                                 !.queue = rest, !.syncSaved = FALSE,
                                 !.successCount = count.successCount,
                                 !.failCount = count.failCount,
                                 !.remoteFails = IF remote \in {"rejected", "neterr"}
                                                 THEN @ + 1 ELSE @]]
              ELSE /\ UNCHANGED cacheVars
                   /\ isLoading' = IF op.kind \in Awaited THEN FALSE ELSE isLoading
                   /\ ops' = [ops EXCEPT ![n] =
                         IF op.kind \in Detached THEN done
                         ELSE [done EXCEPT
                                 !.toast = IF op.kind # "deleteAssets"
                                           THEN toastAfterPush(op, remote)
                                           ELSE IF count.successCount > 0
                                           THEN "success" ELSE "error",
                                 !.returned = TRUE,
                                 !.queue = rest,
                                 !.successCount = count.successCount,
                                 !.failCount = count.failCount,
                                 !.remoteFails = IF op.kind = "deleteAssets"
                                                    /\ remote \in {"rejected", "neterr"}
                                                 THEN @ + 1 ELSE @]]
    /\ UNCHANGED <<dbVars, callVars, SERVER_URL, thumbVars, syncs, fresh>>

\* the operations that raise the loading overlay and run their single local
\* write inside try/catch/finally
Guarded == {"addAsset", "deleteAsset", "renameAsset", "updateAssetInfo",
            "updateAssetFile"}

\* a variant whose catch block reports nothing
CaughtSilently(op) ==
    [op EXCEPT !.pc = "done", !.returned = TRUE]

\* the operation after its catch and finally blocks: logger.error and
\* toast.error, then the return
Caught(op) ==
    [op EXCEPT !.pc = "done", !.toast = "error", !.returned = TRUE]

\* the awaited call on the local store (saveAssetToDb, updateAssetInDb or
\* deleteAssetFromDb) rejects: the read fails or the transaction aborts and
\* leaves the store as it was; control passes to catch, then to finally
WriteThrows(n) ==
    /\ ops[n].kind \in Guarded
    /\ ops[n].pc \in {"save", "read", "tx", "deltx"}
    /\ ops' = [ops EXCEPT ![n] = Caught(@)]
    /\ isLoading' = FALSE
    /\ UNCHANGED <<dbVars, cacheVars, callVars, SERVER_URL, thumbVars, server, disk, syncs,
                   fresh>>

----------------------------------------------------------------------------
(* The whole client against the server *)

\* What IndexedDB and the server hold when the page loads: nothing, or assets
\* uploaded and synced in an earlier session (a with a thumbnail, b without).
\* Without SERVER_URL the same assets were saved locally only.
SeedFiles(id) == [glb |-> 1, thumbnail |-> IF id = "a" THEN 1 ELSE 0,
                  unity |-> 0, zip |-> 0]
SeedAsset(id) == [NoAsset EXCEPT !.id = id, !.name = "n1", !.tags = "t1",
                                 !.categoryId = "prop"]
Seeds == {<< >>, <<"a">>, <<"a", "b">>}

RECURSIVE SeedDb(_), SeedServer(_)
SeedDb(seed) ==
    IF seed = << >> THEN [assets |-> << >>, files |-> << >>]
    ELSE saveAssetToDb(SeedDb(Tail(seed)), SeedAsset(Head(seed)),
                       SeedFiles(Head(seed)))
SeedServer(seed) ==
    IF seed = << >> THEN [server |-> << >>, disk |-> << >>, ok |-> TRUE]
    ELSE PostAsset(SeedServer(Tail(seed)), SeedAsset(Head(seed)),
                   SeedFiles(Head(seed)))

Init ==
    /\ \E seed \in Seeds, url \in {"", "http://localhost:3001"} :
          /\ assets = SeedDb(seed).assets
          /\ files = SeedDb(seed).files
          /\ SERVER_URL = url
          /\ server = IF url = "" THEN << >> ELSE SeedServer(seed).server
          /\ disk = IF url = "" THEN << >> ELSE SeedServer(seed).disk
          /\ fresh = Ids \ {seed[i] : i \in 1..Len(seed)}
    /\ blobUrlCache = << >>
    /\ urlTable = << >>
    /\ get = IdleGet
    /\ del = IdleDel
    /\ upd = IdleUpd
    /\ syncs = [n \in 1..MaxSyncs |-> IdleSync]
    /\ ops = [n \in 1..MaxOps |-> IdleOp]
    /\ isLoading = FALSE
    /\ worker = IdleWorker
    /\ pendingRequests = {}
    /\ promises = << >>

\* the lists deleteAssets is called with: a selection of the asset list
Selections == {<<"a">>, <<"b">>, <<"a", "b">>, <<"b", "a">>}

Next ==
    \/ \E n \in 1..MaxSyncs : SyncStart(n)
    \/ \E n \in 1..MaxSyncs, outcome \in ListOutcomes : SyncList(n, outcome)
    \/ \E n \in 1..MaxSyncs, failure \in DownloadFailures : SyncDownload(n, failure)
    \/ \E n \in 1..MaxSyncs : SyncSave(n)
    \/ \E n \in 1..MaxOps, id \in Ids, f \in SaveInputs : StartAdd(n, id, f)
    \/ \E n \in 1..MaxOps : AddSave(n)
    \/ \E n \in 1..MaxOps : CanStart(n) /\ \E id \in AssetList :
          LET asset == AssetOf(id, Row(assets, id))
          IN  \/ StartUpdate(n, "renameAsset",
                     [asset EXCEPT !.name = Other(Names, @)], 0, 0)
              \/ StartUpdate(n, "updateTags",
                     [asset EXCEPT !.tags = Other(Tags, @)], 0, 0)
              \/ StartUpdate(n, "updateCategory",
                     [asset EXCEPT !.categoryId = Other(Categories, @)], 0, 0)
              \/ \E updates \in InfoUpdates(asset) :
                     StartUpdate(n, "updateAssetInfo",
                                 ApplyUpdates(asset, updates), 0, 0)
              \/ StartUpdate(n, "updateAssetFile", asset, 1, 0)
              \/ StartUpdate(n, "updateAssetFile", asset, 0, 1)
              \/ StartDoubleSide(n, [asset EXCEPT !.doubleSide = ~@])
              \/ StartDelete(n, id)
    \/ \E n \in 1..MaxOps, list \in Selections :
          /\ CanStart(n)
          /\ \A i \in 1..Len(list) : list[i] \in AssetList
          /\ StartDeleteMany(n, list)
    \/ \E n \in 1..MaxOps : UpdateRead(n)
    \/ \E n \in 1..MaxOps : UpdateTx(n)
    \/ \E n \in 1..MaxOps : DeleteTx(n)
    \/ \E n \in 1..MaxOps : DoubleSideMeta(n)
    \/ \E n \in 1..MaxOps : DoubleSideFiles(n)
    \/ \E n \in 1..MaxOps : DoubleSideRead(n)
    \/ \E n \in 1..MaxOps, result \in GenResults : DoubleSideGenerated(n, result)
    \/ \E n \in 1..MaxOps, outcome \in Outcomes : Push(n, outcome)

Spec == Init /\ [][Next]_vars

\* A catalog whose server list repeats an identifier: POST /api/assets pushes
\* its record without looking for the id, so an upload posted twice (by two
\* browsers of the same catalog) is listed twice.  The local store holds what
\* an earlier session pulled, or nothing yet.
ListSeeds == {<<"a", "a">>}

InitList ==
    /\ \E seed \in ListSeeds, local \in {TRUE, FALSE} :
          /\ assets = IF local THEN SeedDb(seed).assets ELSE << >>
          /\ files = IF local THEN SeedDb(seed).files ELSE << >>
          /\ server = SeedServer(seed).server
          /\ disk = SeedServer(seed).disk
          /\ fresh = Ids \ {seed[i] : i \in 1..Len(seed)}
    /\ SERVER_URL = "http://localhost:3001"
    /\ blobUrlCache = << >>
    /\ urlTable = << >>
    /\ get = IdleGet
    /\ del = IdleDel
    /\ upd = IdleUpd
    /\ syncs = [n \in 1..MaxSyncs |-> IdleSync]
    /\ ops = [n \in 1..MaxOps |-> IdleOp]
    /\ isLoading = FALSE
    /\ worker = IdleWorker
    /\ pendingRequests = {}
    /\ promises = << >>

SpecList == InitList /\ [][Next]_vars

\* getAssetFull(id): initDB only logs, then getAssetWithBlobs(id) is called
\* with forceRegenerateUrls left at its default
getAssetFull(id) == GetCall(id, FALSE)

\* A page asks for full assets while the syncs run.  The server holds what an
\* earlier session uploaded; the local store holds the same, or nothing yet
\* (a browser that has not pulled).
InitFull ==
    /\ \E seed \in {<<"a">>, <<"a", "b">>}, local \in {TRUE, FALSE} :
          /\ assets = IF local THEN SeedDb(seed).assets ELSE << >>
          /\ files = IF local THEN SeedDb(seed).files ELSE << >>
          /\ server = SeedServer(seed).server
          /\ disk = SeedServer(seed).disk
          /\ fresh = Ids \ {seed[i] : i \in 1..Len(seed)}
    /\ SERVER_URL = "http://localhost:3001"
    /\ blobUrlCache = << >>
    /\ urlTable = << >>
    /\ get = IdleGet
    /\ del = IdleDel
    /\ upd = IdleUpd
    /\ syncs = [n \in 1..MaxSyncs |-> IdleSync]
    /\ ops = [n \in 1..MaxOps |-> IdleOp]
    /\ isLoading = FALSE
    /\ worker = IdleWorker
    /\ pendingRequests = {}
    /\ promises = << >>

NextFull ==
    \/ \E id \in Ids : getAssetFull(id)
    \/ GetMeta
    \/ GetFiles
    \/ \E n \in 1..MaxSyncs : SyncStart(n)
    \/ \E n \in 1..MaxSyncs, outcome \in ListOutcomes : SyncList(n, outcome)
    \/ \E n \in 1..MaxSyncs, failure \in DownloadFailures : SyncDownload(n, failure)
    \/ \E n \in 1..MaxSyncs : SyncSave(n)

SpecFull == InitFull /\ [][NextFull]_vars

\* no call on the store is under way
Quiet == get.pc \in {"idle", "done"} /\ upd.pc = "idle"

\* the calls on the store made one after the other, each once the one
\* before has returned
SaveQuiet(id, f) == Quiet /\ DbSave(id, f)
HoldQuiet(id) == Quiet /\ UpdHold(id)
FullQuiet(id) == Quiet /\ getAssetFull(id)

\* the store with its readers: saves, updates and getAssetFull calls in any
\* order, none overlapping another
NextReplace ==
    \/ \E id \in Ids, f \in SaveInputs : SaveQuiet(id, f)
    \/ \E id \in Ids : HoldQuiet(id)
    \/ \E f \in UpdateInputs : UpdCall(f.thumbnail, f.unity, f.zip)
    \/ UpdRead
    \/ UpdCommit
    \/ \E id \in Ids : FullQuiet(id)
    \/ GetMeta
    \/ GetFiles

SpecReplace == InitCache /\ [][NextReplace]_vars

\* The pulls alone, called by the startup effect, the timer and focus events
\* at any moment.
InitSync ==
    /\ \E seed \in {<<"a">>, <<"a", "b">>}, local \in {TRUE, FALSE} :
          /\ assets = IF local THEN SeedDb(seed).assets ELSE << >>
          /\ files = IF local THEN SeedDb(seed).files ELSE << >>
          /\ server = SeedServer(seed).server
          /\ disk = SeedServer(seed).disk
          /\ fresh = Ids \ {seed[i] : i \in 1..Len(seed)}
    /\ SERVER_URL = "http://localhost:3001"
    /\ blobUrlCache = << >>
    /\ urlTable = << >>
    /\ get = IdleGet
    /\ del = IdleDel
    /\ upd = IdleUpd
    /\ syncs = [n \in 1..MaxPulls |-> IdleSync]
    /\ ops = [n \in 1..MaxOps |-> IdleOp]
    /\ isLoading = FALSE
    /\ worker = IdleWorker
    /\ pendingRequests = {}
    /\ promises = << >>

NextSync ==
    \/ \E n \in 1..MaxPulls : SyncAgain(n)
    \/ \E n \in 1..MaxPulls, outcome \in ListOutcomes : SyncList(n, outcome)
    \/ \E n \in 1..MaxPulls, failure \in DownloadFailures : SyncDownload(n, failure)
    \/ \E n \in 1..MaxPulls : SyncSave(n)

SpecSync == InitSync /\ [][NextSync]_vars

\* the client with a local store whose writes may fail (quota exceeded,
\* transaction aborted, database closed)
NextThrow ==
    \/ \E n \in 1..MaxOps, id \in Ids, f \in SaveInputs : StartAdd(n, id, f)
    \/ \E n \in 1..MaxOps : AddSave(n)
    \/ \E n \in 1..MaxOps : CanStart(n) /\ \E id \in AssetList :
          LET asset == AssetOf(id, Row(assets, id))
          IN  \/ StartUpdate(n, "renameAsset",
                     [asset EXCEPT !.name = Other(Names, @)], 0, 0)
              \/ \E updates \in InfoUpdates(asset) :
                     StartUpdate(n, "updateAssetInfo",
                                 ApplyUpdates(asset, updates), 0, 0)
              \/ StartUpdate(n, "updateAssetFile", asset, 1, 0)
              \/ StartUpdate(n, "updateAssetFile", asset, 0, 1)
              \/ StartDelete(n, id)
    \/ \E n \in 1..MaxOps : UpdateRead(n)
    \/ \E n \in 1..MaxOps : UpdateTx(n)
    \/ \E n \in 1..MaxOps : DeleteTx(n)
    \/ \E n \in 1..MaxOps, outcome \in Outcomes : Push(n, outcome)
    \/ \E n \in 1..MaxOps : WriteThrows(n)

SpecThrow == Init /\ [][NextThrow]_vars

\* The operations of the orchestrator called while earlier ones are still
\* running: nothing in AssetContext keeps a second call from starting (the
\* detail page toggles doubleSide, edits tags and deletes with the Asset
\* object it loaded; the calls take the slots in order).  No sync runs.
CanCall(n) ==
    /\ ops[n].pc = "idle"
    /\ \A k \in 1..(n - 1) : ops[k].pc # "idle"

InitOverlap ==
    /\ \E seed \in {<<"a">>, <<"a", "b">>} :
          /\ assets = SeedDb(seed).assets
          /\ files = SeedDb(seed).files
          /\ server = SeedServer(seed).server
          /\ disk = SeedServer(seed).disk
          /\ fresh = Ids \ {seed[i] : i \in 1..Len(seed)}
    /\ SERVER_URL = "http://localhost:3001"
    /\ blobUrlCache = << >>
    /\ urlTable = << >>
    /\ get = IdleGet
    /\ del = IdleDel
    /\ upd = IdleUpd
    /\ syncs = [n \in 1..MaxSyncs |-> IdleSync]
    /\ ops = [n \in 1..MaxCalls |-> IdleOp]
    /\ isLoading = FALSE
    /\ worker = IdleWorker
    /\ pendingRequests = {}
    /\ promises = << >>

NextOverlap ==
    \/ \E n \in 1..MaxCalls, id \in Ids, f \in SaveInputs :
          CanCall(n) /\ CallAdd(n, id, f)
    \/ \E n \in 1..MaxCalls : AddSave(n)
    \/ \E n \in 1..MaxCalls : CanCall(n) /\ \E id \in AssetList :
          LET asset == AssetOf(id, Row(assets, id))
          IN  \/ CallUpdate(n, "renameAsset",
                     [asset EXCEPT !.name = Other(Names, @)], 0, 0)
              \/ CallUpdate(n, "updateTags",
                     [asset EXCEPT !.tags = Other(Tags, @)], 0, 0)
              \/ CallUpdate(n, "updateCategory",
                     [asset EXCEPT !.categoryId = Other(Categories, @)], 0, 0)
              \/ CallUpdate(n, "updateAssetFile", asset, 1, 0)
              \/ CallDoubleSide(n, [asset EXCEPT !.doubleSide = ~@])
              \/ CallDelete(n, id)
    \/ \E n \in 1..MaxCalls : UpdateRead(n)
    \/ \E n \in 1..MaxCalls : UpdateTx(n)
    \/ \E n \in 1..MaxCalls : DeleteTx(n)
    \/ \E n \in 1..MaxCalls : DoubleSideMeta(n)
    \/ \E n \in 1..MaxCalls : DoubleSideFiles(n)
    \/ \E n \in 1..MaxCalls : DoubleSideRead(n)
    \/ \E n \in 1..MaxCalls, result \in GenResults : DoubleSideGenerated(n, result)
    \/ \E n \in 1..MaxCalls, outcome \in Outcomes : Push(n, outcome)

SpecOverlap == InitOverlap /\ [][NextOverlap]_vars

\* The server alone, its requests arriving in any order from any client.
InitServer ==
    /\ assets = << >>
    /\ files = << >>
    /\ blobUrlCache = << >>
    /\ urlTable = << >>
    /\ get = IdleGet
    /\ del = IdleDel
    /\ upd = IdleUpd
    /\ SERVER_URL = "http://localhost:3001"
    /\ server = << >>
    /\ disk = << >>
    /\ syncs = [n \in 1..MaxSyncs |-> IdleSync]
    /\ ops = [n \in 1..MaxOps |-> IdleOp]
    /\ isLoading = FALSE
    /\ worker = IdleWorker
    /\ pendingRequests = {}
    /\ promises = << >>
    /\ fresh = Ids

\* a request is served: the handler's result becomes the server's state
ReqPost(id, f) ==
    LET r == PostAsset(Sv, SeedAsset(id), f)
    IN  /\ Len(r.disk) <= MaxDisk
        /\ server' = r.server
        /\ disk' = r.disk
        /\ UNCHANGED <<dbVars, cacheVars, callVars, SERVER_URL, thumbVars, syncs, ops,
                       isLoading, fresh>>

ReqPut(id, name) ==
    LET r == PutAsset(Sv, [SeedAsset(id) EXCEPT !.name = name])
    IN  /\ Len(r.disk) <= MaxDisk
        /\ server' = r.server
        /\ disk' = r.disk
        /\ UNCHANGED <<dbVars, cacheVars, callVars, SERVER_URL, thumbVars, syncs, ops,
                       isLoading, fresh>>

ReqPutFiles(id, f) ==
    LET r == PutAssetFiles(Sv, SeedAsset(id),
                           [glb |-> 0, thumbnail |-> f.thumbnail,
                            unity |-> f.unity, zip |-> f.zip])
    IN  /\ Len(r.disk) <= MaxDisk
        /\ server' = r.server
        /\ disk' = r.disk
        /\ UNCHANGED <<dbVars, cacheVars, callVars, SERVER_URL, thumbVars, syncs, ops,
                       isLoading, fresh>>

ReqDelete(id) ==
    LET r == DeleteAsset(Sv, id)
    IN  /\ Len(r.disk) <= MaxDisk
        /\ server' = r.server
        /\ disk' = r.disk
        /\ UNCHANGED <<dbVars, cacheVars, callVars, SERVER_URL, thumbVars, syncs, ops,
                       isLoading, fresh>>

NextServer ==
    \/ \E id \in Ids, f \in SaveInputs : ReqPost(id, f)
    \/ \E id \in Ids, name \in Names : ReqPut(id, name)
    \/ \E id \in Ids, f \in UpdateInputs : ReqPutFiles(id, f)
    \/ \E id \in Ids : ReqDelete(id)

SpecServer == InitServer /\ [][NextServer]_vars

----------------------------------------------------------------------------
(* ThumbnailGenerator: services/thumbnailGenerator and its worker *)

\* the variables of the rest of the application
appVars == <<dbVars, cacheVars, callVars, SERVER_URL, server, disk, syncs,
             ops, isLoading, fresh>>

RequestTypes == {"generate", "analyze"}

\* resolve or reject is called on a promise: only the first call settles it
Settle(p, how) ==
    [p EXCEPT !.state = IF @ = "pending" THEN how ELSE @, !.settles = @ + 1]

\* request(type, payload), called by generateFromBlob and analyzeModel: the
\* entry { resolve, reject } is set under a new id and the message is posted;
\* a terminated worker drops what is posted to it
request(type) ==
    /\ Len(promises) < MaxRequests
    /\ LET id == Len(promises) + 1
       IN  /\ promises' = Append(promises, [type |-> type, state |-> "pending",
                                            settles |-> 0])
           /\ pendingRequests' = pendingRequests \cup {id}
           /\ worker' = IF worker.terminated THEN worker
                        ELSE [worker EXCEPT !.inbox = @ \cup {id}]
    /\ UNCHANGED appVars

\* self.onmessage of the worker runs for one message: it posts the result
\* (a value or null), or the message of an error its try block caught
WorkerHandles(id, error) ==
    /\ ~worker.terminated
    /\ ~worker.failed
    /\ id \in worker.inbox
    /\ worker' = [worker EXCEPT !.inbox = @ \ {id}, !.started = TRUE,
                                !.outbox = @ \cup {[id |-> id, error |-> error]}]
    /\ UNCHANGED <<appVars, pendingRequests, promises>>

\* the worker script throws while it is evaluated (its imports, new
\* ThumbnailGeneratorWorker()): self.onmessage is never set, and the page's
\* worker.onerror logs the event
WorkerError ==
    /\ ~worker.terminated
    /\ ~worker.failed
    /\ ~worker.started
    /\ worker' = [worker EXCEPT !.failed = TRUE]
    /\ UNCHANGED <<appVars, pendingRequests, promises>>

\* worker.onmessage of the page runs for one reply
OnMessage(reply) ==
    /\ reply \in worker.outbox
    /\ worker' = [worker EXCEPT !.outbox = @ \ {reply}]
    /\ IF reply.id \in pendingRequests
       THEN /\ promises' = [promises EXCEPT ![reply.id] =
                               Settle(@, IF reply.error THEN "rejected"
                                         ELSE "resolved")]
            /\ pendingRequests' = pendingRequests \ {reply.id}
       ELSE UNCHANGED <<pendingRequests, promises>>
    /\ UNCHANGED appVars

\* dispose(): the worker is terminated, every entry is rejected and the map
\* is cleared
dispose ==
    /\ worker' = [worker EXCEPT !.terminated = TRUE, !.inbox = {}]
    /\ promises' = [i \in 1..Len(promises) |->
                       IF i \in pendingRequests
                       THEN Settle(promises[i], "rejected") ELSE promises[i]]
    /\ pendingRequests' = {}
    /\ UNCHANGED appVars

WorkerStep == \E id \in 1..MaxRequests, error \in BOOLEAN : WorkerHandles(id, error)
PageStep == \E reply \in worker.outbox : OnMessage(reply)

NextThumbs ==
    \/ \E type \in RequestTypes : request(type)
    \/ WorkerStep
    \/ WorkerError
    \/ PageStep
    \/ dispose

\* a running worker handles every message posted to it, and the page's event
\* loop delivers every reply
SpecThumbs ==
    InitCache /\ [][NextThumbs]_vars /\ WF_vars(WorkerStep) /\ WF_vars(PageStep)

----------------------------------------------------------------------------
(* Properties of the handle cache, checked under SpecCache *)

CacheKeys == {blobUrlCache[i].key : i \in 1..Len(blobUrlCache)}
LiveUrls == {u \in 1..Len(urlTable) : urlTable[u].live}
Returned(g) == <<g.url, g.thumbnail, g.unityPackageUrl, g.fbxZipUrl>>
GetReturns == get.pc = "files" /\ get'.pc = "done"

\* C1: the blob-URL cache never holds more than MAX_BLOB_URL_CACHE_SIZE
\* entries.
C1_CacheWithinBound == Len(blobUrlCache) <= MAX_BLOB_URL_CACHE_SIZE

\* at most one un-revoked URL made by the cache exists per (asset, slot) key
LiveUnique ==
    \A u \in LiveUrls, v \in LiveUrls : urlTable[u].key = urlTable[v].key => u = v

\* a getOrCreateBlobURL call without forceRegenerate on a key whose cached
\* URL was not evicted or revoked since hands out that same URL
HitReturnsSame ==
    (GetReturns /\ ~get.force) =>
        \A n \in 1..4 :
            LET u == CacheGet(blobUrlCache, Key(get.id, Slots[n]))
                r == Returned(get')[n]
            IN  (u # 0 /\ r # 0 /\ urlTable'[u].live) => r = u

C7_NoHandleAfterDelete ==
    [][(del.pc = "tx" /\ del'.pc = "idle") =>
           \A n \in 1..4 : Key(del.id, Slots[n]) \notin CacheKeys']_vars

\* C8: every URL in the Asset that getAssetWithBlobs returns is un-revoked at
\* the moment the call returns.
C8_ReturnedHandlesLive ==
    [][GetReturns =>
           \A n \in 1..4 : LET r == Returned(get')[n]
                           IN  r # 0 => urlTable'[r].live]_vars

----------------------------------------------------------------------------
(* Properties of the orchestrator and the sync, checked under Spec *)

\* the operation of slot n returns to its caller at this step
Returns(n) == ~ops[n].returned /\ ops'[n].returned

\* the awaited or detached push of slot n settles at this step
PushSettles(n) == ops[n].pc = "push" /\ ops'[n].pc # "push"

DeleteKinds == {"deleteAsset", "deleteAssets"}

\* the local store holds what the operation of slot n wrote: the metadata of
\* the asset object it was given and every payload it supplied
HoldsWrite(n) ==
    LET op == ops[n]
        id == op.asset.id
    IN  /\ id \in Keys(assets)
        /\ Row(assets, id).name = op.asset.name
        /\ Row(assets, id).tags = op.asset.tags
        /\ Row(assets, id).categoryId = op.asset.categoryId
        /\ Row(assets, id).doubleSide = op.asset.doubleSide
        /\ op.thumbnail # 0 => Row(assets, id).thumbnailBlob = op.thumbnail
        /\ op.glb # 0 => id \in Keys(files) /\ Row(files, id).glb = op.glb
        /\ op.unity # 0 => id \in Keys(files) /\ Row(files, id).unity = op.unity
        /\ op.zip # 0 => id \in Keys(files) /\ Row(files, id).zip = op.zip

\* the local store shows the write or the deletion the operation of slot n made
StillWritten(n) ==
    CASE ops[n].kind = "deleteAsset" ->
            ops[n].asset.id \notin Keys(assets) \cup Keys(files)
      [] ops[n].kind = "deleteAssets" ->
            \A i \in 1..Len(ops[n].list) :
                ops[n].list[i] \notin Keys(assets) \cup Keys(files)
      [] OTHER -> HoldsWrite(n)

C4_PushFailureKeepsWrite ==
    [][\A n \in DOMAIN ops :
          (PushSettles(n) /\ Returns(n) /\ ops'[n].remote # "ok")
              => (StillWritten(n)' /\ ops'[n].toast = "success")]_vars

\* C4 as the code has it: the step that settles a failed push leaves the
\* local store as it is (nothing is rolled back), the operation never reports
\* an error for it, reports success when it returns at that step, and an
\* asset created by addAsset is in the asset list.
C4_PushFailureNoRollback ==
    [][\A n \in DOMAIN ops :
          (PushSettles(n) /\ ops'[n].remote # "ok")
              => /\ assets' = assets /\ files' = files
                 /\ ops'[n].toast # "error"
                 /\ Returns(n) => ops'[n].toast = "success"
                 /\ ops[n].kind = "addAsset"
                        => ops[n].asset.id \in AssetList']_vars

\* addAsset has returned with success after a push that failed on the
\* network: the asset is in the asset list and not on the server
C4_Witness ==
    \E n \in DOMAIN ops :
        /\ ops[n].kind = "addAsset" /\ ops[n].returned
        /\ ops[n].remote = "neterr" /\ ops[n].toast = "success"
        /\ ops[n].asset.id \in AssetList
        /\ IndexOf(server, ops[n].asset.id) = 0

\* the identifiers of the list the sync s got, or gets at this step
ListedIds(s) ==
    LET list == IF syncs[s].pc = "list" THEN server ELSE syncs[s].list
    IN  {list[i].id : i \in 1..Len(list)}

\* C5: when a sync during which no operation was in flight returns true, the
\* identifiers of the asset list are those of the list it got from the server.
C5_ListEqualsRemoteAfterSync ==
    [][\A s \in DOMAIN syncs :
          (/\ s \in InFlight /\ syncs'[s].pc = "done" /\ syncs'[s].result
           /\ syncs[s].quiet
           /\ \A n \in DOMAIN ops : ops'[n].pc \in {"idle", "done"})
              => AssetList' = ListedIds(s)]_vars

\* deleteAsset of slot n has returned and no sync that was in flight during
\* the call is still in flight
DeleteSettled(n) ==
    ops[n].kind = "deleteAsset" /\ ops[n].returned /\ ops[n].racing = {}

\* C6: from the moment deleteAsset(id) has returned and every sync that was
\* in flight during the call has finished, id is in neither the asset list
\* nor the local store.
C6_LocalDeleteWins ==
    [][\A n \in DOMAIN ops :
          (~DeleteSettled(n) /\ DeleteSettled(n)')
              => ops'[n].asset.id \notin Keys(assets') \cup Keys(files')]_vars

----------------------------------------------------------------------------
(* Properties of the store, checked under SpecStore *)

\* the transaction of updateAssetInDb commits at this step
UpdCommits == upd.pc = "tx" /\ upd'.pc = "idle"

\* C12: when updateAssetInDb commits on an asset that has stored payloads,
\* each slot it was given holds the new bytes and every other slot (glb,
\* thumbnail, unity, zip) holds the bytes it held before.
C12_PartialUpdateKeepsSlots ==
    [][LET id == upd.asset.id
       IN  (UpdCommits /\ id \in Keys(assets) /\ id \in Keys(files))
              => /\ Row(files', id).glb = Row(files, id).glb
                 /\ Row(assets', id).thumbnailBlob =
                       IF upd.thumbnail # 0 THEN upd.thumbnail
                       ELSE Row(assets, id).thumbnailBlob
                 /\ Row(files', id).unity =
                       IF upd.unity # 0 THEN upd.unity ELSE Row(files, id).unity
                 /\ Row(files', id).zip =
                       IF upd.zip # 0 THEN upd.zip ELSE Row(files, id).zip]_vars

\* C15: every metadata record of the local store has a payload record for
\* the same id, and that record holds a glb.
C15_MetaHasPayload ==
    \A id \in Keys(assets) : id \in Keys(files) /\ Row(files, id).glb # 0

----------------------------------------------------------------------------
(* More properties of the handle cache, checked under SpecCache *)

\* C13: deleteAssetFromDb on an id that is absent from the local store
\* changes neither the handle cache (at its call, where it revokes) nor the
\* store and the asset list (at its commit).
C13_DeleteAbsentIsNoOp ==
    [][/\ (del.pc = "idle" /\ del'.pc = "tx"
              /\ del'.id \notin Keys(assets) \cup Keys(files))
          => (blobUrlCache' = blobUrlCache /\ urlTable' = urlTable)
       /\ (del.pc = "tx" /\ del'.pc = "idle"
              /\ del.id \notin Keys(assets) \cup Keys(files))
          => (assets' = assets /\ files' = files)]_vars

----------------------------------------------------------------------------
(* Properties of the asset list, checked under SpecList *)

\* C14: the asset list never holds two entries with the same id, whatever
\* creates, updates, deletes and syncs have run, and also when the remote list
\* a sync works through repeats an id.
C14_ListIdsUnique ==
    \A i, j \in 1..Len(assetsQuery) :
        assetsQuery[i].id = assetsQuery[j].id => i = j

\* a sync is about to save the second record the remote list holds under one
\* id, the first is in the list already, and an operation of the user has
\* written to the store and returned
C14_Witness ==
    /\ \E s \in DOMAIN syncs :
          /\ syncs[s].pc = "save" /\ syncs[s].i > 1
          /\ \E k \in 1..(syncs[s].i - 1) :
                syncs[s].list[k].id = syncs[s].list[syncs[s].i].id
          /\ syncs[s].list[syncs[s].i].id \in AssetList
    /\ \E n \in DOMAIN ops : ops[n].returned /\ ops[n].wrote

----------------------------------------------------------------------------
(* Properties of getAssetFull, checked under SpecFull *)

\* the server lists id
RemoteLists(id) == \E i \in 1..Len(server) : server[i].id = id

\* C16: getAssetFull(id) of an id the local store does not hold while the
\* configured remote lists it returns the asset (fetched from the remote by
\* id), not undefined: the read of db.assets that finds nothing does not end
\* the call with undefined.
C16_FetchesFromRemote ==
    [][(get.pc = "meta" /\ get'.pc = "done"
           /\ serverConfigured(SERVER_URL) /\ RemoteLists(get.id))
          => get'.found]_vars

----------------------------------------------------------------------------
(* Properties of the sync callers, checked under SpecSync *)

\* C17: at most one syncFromServer call is in flight at any time: a timer
\* tick or a focus event during a pull starts no second one.
C17_OneSyncInFlight == Cardinality(InFlight) <= 1

----------------------------------------------------------------------------
(* Properties of getOrCreateBlobURL call by call, checked under SpecHandles *)

\* a step that is one getOrCreateBlobURL call, and the key it is called with
SlotCalls == get.pc = "slot" /\ SlotBlob(get) # 0 /\ get' # get
SlotKey == Key(get.id, Slots[get.k])

\* C18: a call that inserts a key the cache does not hold while the cache is
\* past its bound evicts exactly one entry, the one inserted earliest (URL
\* numbers grow with insertion), and revokes its URL and no other; the other
\* entries keep their order and the new one goes last.  A call that returns
\* the cached handle changes neither the cache nor any URL.
C18_EvictsEarliestOnly ==
    [][SlotCalls =>
          LET cached == CacheGet(blobUrlCache, SlotKey)
          IN  /\ (cached = 0 /\ Len(blobUrlCache) > MAX_BLOB_URL_CACHE_SIZE) =>
                    \E v \in 1..Len(blobUrlCache) :
                       LET victim == blobUrlCache[v]
                       IN  /\ \A i \in 1..Len(blobUrlCache) :
                                 victim.url <= blobUrlCache[i].url
                           /\ blobUrlCache' =
                                 SelectSeq(blobUrlCache, LAMBDA e : e # victim)
                                    \o <<[key |-> SlotKey,
                                          url |-> Len(urlTable) + 1]>>
                           /\ Len(blobUrlCache') = Len(blobUrlCache)
                           /\ urlTable[victim.url].live
                           /\ ~urlTable'[victim.url].live
                           /\ \A u \in 1..Len(urlTable) :
                                 u # victim.url => urlTable'[u] = urlTable[u]
              /\ (cached # 0 /\ ~get.force) =>
                    blobUrlCache' = blobUrlCache /\ urlTable' = urlTable]_vars

\* the latest call of a getAssetWithBlobs in its slots was not forced, it put
\* a key into the cache with a new URL and revoked the URL of another key:
\* an eviction
C18_Witness ==
    /\ get.pc = "slot" /\ get.k > 1 /\ ~get.force
    /\ get[Fields[get.k - 1]] = Len(urlTable)
    /\ \E v \in get.revoked :
          /\ urlTable[v].key # Key(get.id, Slots[get.k - 1])
          /\ \A i \in 1..Len(blobUrlCache) : v < blobUrlCache[i].url

\* C19: a handle goes from absent to live to revoked and never back.  A
\* forced getOrCreateBlobURL on a key with a live handle revokes that handle
\* and binds the key to a URL allocated by the call; a revoked URL stays
\* revoked (whether force-regeneration, eviction or revokeBlobUrlsForAsset
\* revoked it), no cache entry holds a revoked URL, and the URL a
\* getOrCreateBlobURL call returns is live.
C19_HandleLifecycle ==
    [][/\ \A u \in 1..Len(urlTable) : ~urlTable[u].live => ~urlTable'[u].live
       /\ \A i \in 1..Len(blobUrlCache') : urlTable'[blobUrlCache'[i].url].live
       /\ SlotCalls =>
             LET cached == CacheGet(blobUrlCache, SlotKey)
                 returned == get'[Fields[get.k]]
             IN  /\ returned \in 1..Len(urlTable')
                 /\ urlTable'[returned].live
                 /\ (get.force /\ cached # 0) =>
                       /\ urlTable[cached].live
                       /\ ~urlTable'[cached].live
                       /\ returned = Len(urlTable) + 1
                       /\ CacheGet(blobUrlCache', SlotKey) = returned]_vars

\* the latest call of a getAssetWithBlobs in its slots was forced and revoked
\* the URL its key had; the key now has the URL the call allocated, and a
\* delete has revoked handles too
C19_Witness ==
    /\ get.pc = "slot" /\ get.k > 1 /\ get.force
    /\ get[Fields[get.k - 1]] = Len(urlTable)
    /\ CacheGet(blobUrlCache, Key(get.id, Slots[get.k - 1])) = Len(urlTable)
    /\ \E v \in get.revoked : urlTable[v].key = Key(get.id, Slots[get.k - 1])
    /\ \E v \in 1..Len(urlTable) : ~urlTable[v].live /\ urlTable[v].key[1] # get.id

----------------------------------------------------------------------------
(* More properties of the orchestrator, checked under Spec *)

\* the operations whose push the claim is about
Mutating == {"renameAsset", "updateAssetInfo", "updateTags", "updateCategory",
             "updateDoubleSide", "updateAssetFile", "addAsset", "deleteAsset"}

\* C20: the remote push of every mutating operation is awaited: when the
\* operation returns to its caller with a server configured, its request has
\* completed and no push of it is in flight.
C20_PushAwaited ==
    [][\A n \in DOMAIN ops :
          (Returns(n) /\ ops'[n].kind \in Mutating
              /\ serverConfigured(SERVER_URL))
             => ops'[n].pc # "push"]_vars

----------------------------------------------------------------------------
(* Properties of overlapping operations, checked under SpecOverlap *)

\* C21: the remote push of a change is issued only after the local write of
\* that change has committed: an operation that has reached its push with a
\* server configured has written to the local store.
C21_WriteBeforePush ==
    \A n \in DOMAIN ops :
        (ops[n].pc = "push" /\ serverConfigured(SERVER_URL)) => ops[n].wrote

\* C22: renameAsset changes only the name, updateTags only the tags and
\* updateCategory only the category of the stored metadata record: when the
\* update transaction of such an operation commits, every other field of the
\* record keeps the value the store held, whatever Asset object the caller
\* passed.
C22_OnlyTheFieldChanges ==
    [][\A n \in DOMAIN ops :
          (/\ ops[n].pc = "tx" /\ ops'[n].pc # "tx"
           /\ ops[n].kind \in {"renameAsset", "updateTags", "updateCategory"}
           /\ ops[n].asset.id \in Keys(assets))
          => LET old == Row(assets, ops[n].asset.id)
                 new == Row(assets', ops[n].asset.id)
             IN  /\ ops[n].kind # "renameAsset" => new.name = old.name
                 /\ ops[n].kind # "updateTags" => new.tags = old.tags
                 /\ ops[n].kind # "updateCategory"
                       => new.categoryId = old.categoryId
                 /\ new.doubleSide = old.doubleSide
                 /\ new.thumbnailBlob = old.thumbnailBlob]_vars

----------------------------------------------------------------------------
(* Properties of readers of the store, checked under SpecCache *)

\* C23: a getAssetWithBlobs call that runs alongside writes of the same id
\* returns metadata and payloads of one committed version; in particular,
\* when it returns an asset, the payload record of the metadata it read is
\* still there at its payload read.
C23_ReaderSeesOneVersion ==
    [][GetReturns => get.id \in Keys(files)]_vars

----------------------------------------------------------------------------
(* Properties of the server, checked under SpecServer *)

\* C24: the ids of the server's asset array are pairwise distinct after any
\* sequence of POST, PUT and DELETE requests.
C24_RemoteIdsUnique ==
    \A i, j \in 1..Len(server) : server[i].id = server[j].id => i = j

----------------------------------------------------------------------------
(* Properties of the pull, checked under Spec *)

\* C25: syncFromServer returns false only before its loop (no server
\* configured, or the list request ends in a network error, a non-success
\* status or a body that is not an array), and the step on which it returns
\* false creates, changes and removes no record of the local store.
C25_FailedPullKeepsStore ==
    [][\A n \in DOMAIN syncs :
          (syncs[n].pc # "done" /\ syncs'[n].pc = "done" /\ ~syncs'[n].result)
          => /\ syncs[n].pc \in {"idle", "list"}
             /\ assets' = assets
             /\ files' = files]_vars

\* a pull of a configured server has failed over a local store with records
C25_Witness ==
    \E n \in DOMAIN syncs :
        /\ syncs[n].pc = "done"
        /\ ~syncs[n].result
        /\ serverConfigured(SERVER_URL)
        /\ Len(assets) > 0
        /\ Len(files) > 0

----------------------------------------------------------------------------
(* Properties of the handles after a replacement, checked under SpecReplace *)

\* the blob the handle url is bound to, 0 for no handle
BoundTo(table, url) == IF url = 0 THEN 0 ELSE table[url].blob

\* C26: getAssetFull(id) returns for every payload slot a handle bound to
\* the bytes it has just read from the store for that slot, hence to the new
\* bytes once the slot has been replaced, never a cached handle made from the
\* bytes the slot held before.
C26_HandleOfStoredBytes ==
    [][(get.pc = "files" /\ get'.pc = "done" /\ get'.found)
       => LET fl == IF get.id \in Keys(files) THEN Row(files, get.id)
                    ELSE NoFiles
          IN  /\ BoundTo(urlTable', get'.thumbnail) = get.meta.thumbnailBlob
              /\ BoundTo(urlTable', get'.url) = fl.glb
              /\ BoundTo(urlTable', get'.unityPackageUrl) = fl.unity
              /\ BoundTo(urlTable', get'.fbxZipUrl) = fl.zip]_vars

\* the sync n stores the asset it has downloaded
SyncSaves(n) == syncs[n].pc = "save" /\ syncs'[n].pc # "save"

\* C27: when syncFromServer stores an asset whose thumbnail, unity or zip
\* download failed or was absent on the remote, the payload the local store
\* already holds for that slot is left unchanged; an asset whose glb download
\* failed is not stored at all.
C27_SyncKeepsOptionalPayloads ==
    [][\A n \in DOMAIN syncs :
          /\ (SyncSaves(n) /\ syncs[n].list[syncs[n].i].id \in Keys(assets)
              /\ syncs[n].list[syncs[n].i].id \in Keys(files))
             => LET sy == syncs[n]
                    id == sy.list[sy.i].id
                IN  /\ sy.thumbnail = 0
                       => Row(assets', id).thumbnailBlob
                          = Row(assets, id).thumbnailBlob
                    /\ sy.unity = 0
                       => Row(files', id).unity = Row(files, id).unity
                    /\ sy.zip = 0
                       => Row(files', id).zip = Row(files, id).zip
          /\ (syncs[n].pc = "download"
              /\ (syncs'[n].pc = "done" \/ syncs'[n].i # syncs[n].i))
             => assets' = assets /\ files' = files]_vars

----------------------------------------------------------------------------
(* Properties of a failing local write, checked under SpecThrow *)

\* C28: when the local-store write of addAsset, deleteAsset, renameAsset,
\* updateAssetInfo or updateAssetFile throws, the operation returns having
\* sent no remote request for the change, having reported an error, and with
\* the loading flag cleared.
C28_FailedWriteSendsNothing ==
    [][\A n \in DOMAIN ops :
          (ops[n].kind \in Guarded /\ ~ops[n].returned /\ ops'[n].returned
           /\ ~ops'[n].wrote)
          => /\ ops'[n].toast = "error"
             /\ ops'[n].remote = ""
             /\ server' = server
             /\ disk' = disk
             /\ ~isLoading']_vars

\* the local write of an operation has thrown with a server configured
C28_Witness ==
    \E n \in DOMAIN ops :
        /\ ops[n].kind \in Guarded
        /\ ops[n].returned
        /\ ~ops[n].wrote
        /\ ops[n].toast = "error"
        /\ serverConfigured(SERVER_URL)

----------------------------------------------------------------------------
(* More properties of overlapping operations, checked under SpecOverlap *)

\* the operation n that raises the overlay has been called and has not
\* returned
Loading(n) ==
    ops[n].kind \in Awaited /\ ops[n].pc # "idle" /\ ~ops[n].returned

\* C29: isLoading is true in every state in which at least one addAsset,
\* deleteAsset, deleteAssets, renameAsset, updateAssetInfo or updateAssetFile
\* call is in flight, also when two of them overlap, and false once all of
\* them have returned.
C29_LoadingWhileInFlight ==
    isLoading <=> \E n \in DOMAIN ops : Loading(n)

----------------------------------------------------------------------------
(* Properties of the ThumbnailGenerator, checked under SpecThumbs *)

\* pendingRequests holds the requests sent and not settled, and no promise
\* has had resolve or reject called on it twice
PendingExact ==
    /\ pendingRequests = {i \in 1..Len(promises) : promises[i].state = "pending"}
    /\ \A i \in 1..Len(promises) : promises[i].settles <= 1

\* the request i has been made / has been settled
Sent(i) == Len(promises) >= i
Settled(i) == Len(promises) >= i /\ promises[i].state # "pending"

\* C30: every ThumbnailGenerator request is eventually settled, exactly once
\* (by the worker's reply, a worker error or dispose), and pendingRequests
\* holds exactly the requests sent and not yet settled.
C30_EveryRequestSettles ==
    /\ []PendingExact
    /\ \A i \in 1..MaxRequests : Sent(i) ~> Settled(i)

====
